---- MODULE Spec2Model ----
(***************************************************************************)
(* get_measurement_ids.py: the RIPE Atlas measurement paginator.           *)
(*                                                                         *)
(* main() is modelled as a state machine, one action per block of the      *)
(* function: Setup (endpoint, id_key, params, url, open_out), Fetch (one   *)
(* GET, raise_for_status, json, the empty-page test), WriteItem (one turn  *)
(* of the for loop), PageEnd (early stop, next, params cleared) and        *)
(* Finally (the finally block).  The server is the environment: a          *)
(* deterministic map from a request (URL, query string present) to a       *)
(* response, its answers drawn when a request is first made.               *)
(***************************************************************************)
EXTENDS Integers, Sequences, FiniteSets, TLC

\* ------------------------------------------------------------------ bounds
\* The model stops fetching after MaxPages requests of one run.
MaxPages == 3
\* The server hands a run at most MaxRecords records in all.
MaxRecords == 2

\* --------------------------------------------------------------- constants
DEFAULT_URL == "https://atlas.ripe.net/api/v2/measurements/"
ANCHOR_URL == "https://atlas.ripe.net/api/v2/anchor-measurements/"

\* A URL that is absent: Python's None and "" are both false in `while url`
\* and in `if args.resume_url`.
NoUrl == ""

\* The locator of page i, as the server hands it out in "next".
PageUrl(i) == "https://atlas.ripe.net/api/v2/measurements/?page=" \o ToString(i)

\* ------------------------------------------------------------ JSON values
\* A JSON scalar as Python holds it: an int, a str or None.
IntV(n) == [t |-> "int", n |-> n, s |-> ""]
StrV(s) == [t |-> "str", n |-> 0, s |-> s]
None == [t |-> "null", n |-> 0, s |-> ""]

\* isinstance(v, int)
IsInt(v) == v.t = "int"

\* str(v), as print() writes it
PyStr(v) ==
  CASE v.t = "int" -> ToString(v.n)
    [] v.t = "str" -> v.s
    [] OTHER -> "None"

\* json.dumps of a scalar
JsonScalar(v) ==
  CASE v.t = "int" -> ToString(v.n)
    [] v.t = "str" -> ToString(v.s)
    [] OTHER -> "null"

\* The csv module's cell for a value: None is written as the empty string.
CsvCell(v) ==
  CASE v.t = "int" -> ToString(v.n)
    [] v.t = "str" -> v.s
    [] OTHER -> ""

\* ----------------------------------------------------------------- records
\* A record (one element of "results") is a dict: a sequence of <<key, value>>
\* pairs with distinct keys, in the order the JSON object lists them.
Range(seq) == {seq[i] : i \in DOMAIN seq}

ItemKeys(item) == {item[i][1] : i \in DOMAIN item}

\* item.get(key)
ItemGet(item, key) ==
  IF key \in ItemKeys(item)
    THEN (CHOOSE p \in Range(item) : p[1] = key)[2]
    ELSE None

\* The field names of the model, in the order Python's sorted() puts them.
KeyOrder == <<"id", "measurement", "probe_id">>

\* sorted(keys)
SortedKeys(keys) == SelectSeq(KeyOrder, LAMBDA k : k \in keys)

\* (mutant) str(item): single-quoted keys and strings, None for null
JsonDumpsStr(item) ==
  [i \in 1..(2 * Len(item)) |->
     IF i % 2 = 1 THEN "'" \o item[(i + 1) \div 2][1] \o "'"
     ELSE LET v == item[i \div 2][2]
          IN IF v.t = "str" THEN "'" \o v.s \o "'" ELSE PyStr(v)]

\* json.dumps(item): the keys and values in the record's own order.
JsonDumps(item) ==
  [i \in 1..(2 * Len(item)) |->
     IF i % 2 = 1 THEN ToString(item[(i + 1) \div 2][1])
                  ELSE JsonScalar(item[i \div 2][2])]

\* csv.DictWriter._dict_to_list: one cell per field name, a missing key gives
\* the restval "".
CsvRow(fieldnames, item) ==
  [i \in 1..Len(fieldnames) |->
     IF fieldnames[i] \in ItemKeys(item)
       THEN CsvCell(ItemGet(item, fieldnames[i]))
       ELSE ""]

\* The keys DictWriter rejects (extrasaction = "raise"): a ValueError.
CsvExtras(fieldnames, item) == ItemKeys(item) \ Range(fieldnames)

\* The records the modelled server can hold.
RecA == << <<"id", IntV(3)>>, <<"measurement", IntV(1)>> >>
RecB == << <<"id", IntV(1)>> >>
RecC == << <<"measurement", IntV(3)>>, <<"id", StrV("x")>> >>
RecordPool == {RecA, RecB, RecC}

SeqsUpTo(S, n) == UNION {[1..k -> S] : k \in 0..n}

\* The "results" arrays of at most n records.
ResultsPool(n) == SeqsUpTo(RecordPool, n)

\* --------------------------------------------------------------- arguments
\* A string the code inspects character by character (--sort) is a sequence
\* of characters.
Whitespace == {" ", "\t", "\n"}

RECURSIVE LStrip(_)
LStrip(cs) ==
  IF cs # <<>> /\ cs[1] \in Whitespace THEN LStrip(Tail(cs)) ELSE cs

RECURSIVE RStrip(_)
RStrip(cs) ==
  IF cs # <<>> /\ cs[Len(cs)] \in Whitespace
    THEN RStrip(SubSeq(cs, 1, Len(cs) - 1))
    ELSE cs

\* str.strip()
Strip(cs) == RStrip(LStrip(cs))

RECURSIVE Join(_)
Join(cs) == IF cs = <<>> THEN "" ELSE cs[1] \o Join(Tail(cs))

SortDesc == <<"-", "i", "d">>
SortAsc == <<"i", "d">>
SortPadded == <<" ", "-", "i", "d">>
Sorts == {SortDesc, SortAsc, SortPadded}

Endpoints == {"measurements", "anchor-measurements"}
Outputs == {"ids", "jsonl", "csv"}
\* --outfile: standard output, a file that can be written, and a path open()
\* cannot open (a directory that is not there).
BadPath == "/no/such/dir/out.txt"
Outfiles == {"-", "out.txt", BadPath}

\* --min-id: 0 is the default (no threshold); 2 lies between the identifiers
\* of the record pool.
MinIds == {0, 2}

\* --extra: no override, an override object, and text that is no JSON.
ExtraNone == ""
ExtraSort == "{\"sort\": \"id\", \"status\": 1}"
ExtraBad == "{status:"
Extras == {ExtraNone, ExtraSort, ExtraBad}

\* json.loads(text) on the --extra texts of the model: ok is FALSE where
\* json.loads raises JSONDecodeError.
JsonLoads(text) ==
  CASE text = ExtraSort ->
         [ok |-> TRUE, obj |-> {<<"sort", StrV("id")>>, <<"status", IntV(1)>>}]
    [] OTHER -> [ok |-> FALSE, obj |-> {}]

\* ------------------------------------------------------------- credentials
\* What the user does at the getpass prompt: types a key, types nothing, or
\* cancels (EOFError, KeyboardInterrupt).
Cancelled == "<cancelled>"
TypedKey == "typed-key"
EnvKey == "env-key"
ArgKey == "arg-key"

\* An absent key: None and "" are both false in `if key_from_env`,
\* `if args.api_key` and `if api_key`.
NoKey == ""

\* (mutant) the command-line key is looked at before the environment
GetApiKeyArgFirst(a, e) ==
  IF a.prompt_key
    THEN [exit |-> e.getpass = Cancelled,
          key |-> IF e.getpass = Cancelled THEN NoKey ELSE e.getpass]
  ELSE IF a.api_key # NoKey THEN [exit |-> FALSE, key |-> a.api_key]
  ELSE IF e.RIPE_ATLAS_API_KEY # NoKey
    THEN [exit |-> FALSE, key |-> e.RIPE_ATLAS_API_KEY]
  ELSE [exit |-> FALSE, key |-> NoKey]

\* get_api_key(args): the key, or exit TRUE where it calls sys.exit(1).
GetApiKey(a, e) ==
  IF a.prompt_key
    THEN [exit |-> e.getpass = Cancelled,
          key |-> IF e.getpass = Cancelled THEN NoKey ELSE e.getpass]
  ELSE IF e.RIPE_ATLAS_API_KEY # NoKey
    THEN [exit |-> FALSE, key |-> e.RIPE_ATLAS_API_KEY]
  ELSE IF a.api_key # NoKey THEN [exit |-> FALSE, key |-> a.api_key]
  ELSE [exit |-> FALSE, key |-> NoKey]

\* make_session(api_key=api_key): the headers of the session.
MakeSession(api_key) ==
  {<<"User-Agent", "atlas-fetch/1.0">>, <<"Accept", "application/json">>}
    \cup (IF api_key # NoKey THEN {<<"Authorization", "Key " \o api_key>>}
                             ELSE {})

\* base, chosen by --endpoint
Base(a) == IF a.endpoint = "anchor-measurements" THEN ANCHOR_URL ELSE DEFAULT_URL

\* (mutant) the record's own id on every endpoint
IdKeyOwnId(a) == "id"

\* id_key, chosen by --endpoint and --output
IdKey(a) ==
  IF a.endpoint = "anchor-measurements"
    THEN (IF a.output = "ids" THEN "measurement" ELSE "id")
    ELSE "id"

\* A dict of query parameters is a set of <<key, value>> pairs, one per key.
DictKeys(d) == {p[1] : p \in d}

\* (mutant) setdefault: a key the dict holds keeps its value
DictUpdateKeep(d, e) == d \cup {p \in e : p[1] \notin DictKeys(d)}

\* dict.update
DictUpdate(d, e) == {p \in d : p[1] \notin DictKeys(e)} \cup e

\* params before --extra is merged
BaseParams(a) ==
  LET common == {<<"sort", StrV(Join(a.sort))>>,
                 <<"page_size", IntV(a.page_size)>>,
                 <<"fields", StrV(a.fields)>>}
      filters == {<<"type", StrV(a.type)>>,
                  <<"af", IntV(a.af)>>,
                  <<"tags", StrV(a.tags)>>}
  IN IF a.endpoint = "measurements" THEN common \cup filters ELSE common

\* params as the first request carries them (--extra is valid JSON or empty)
BuildParams(a) ==
  IF a.extra # "" THEN DictUpdate(BaseParams(a), JsonLoads(a.extra).obj)
                  ELSE BaseParams(a)

\* (mutant) the JSONDecodeError is swallowed
ExtraAccepted(a) == FALSE

\* The --extra text makes main() exit before the loop.
ExtraInvalid(a) == a.extra # "" /\ ~JsonLoads(a.extra).ok

\* url before the loop
StartUrl(a) == IF a.resume_url # NoUrl THEN a.resume_url ELSE Base(a)

\* ------------------------------------------------------------- early stop
SetMin(S) == CHOOSE m \in S : \A n \in S : m <= n

\* [x.get(id_key) for x in results if isinstance(x.get(id_key), int)]
PageIds(results, key) ==
  {ItemGet(results[i], key).n :
     i \in {j \in DOMAIN results : IsInt(ItemGet(results[j], key))}}

\* (mutant) the sort order is not looked at
EarlyStopAnySort(a) == a.min_id # 0

\* args.min_id and args.sort.strip() == "-id"
EarlyStopActive(a) == a.min_id # 0 /\ Strip(a.sort) = SortDesc

SetMax(S) == CHOOSE m \in S : \A n \in S : n <= m

\* (mutant) the largest identifier of the page is compared, not the smallest
EarlyStopOnMax(a, key, results) ==
  /\ EarlyStopActive(a)
  /\ PageIds(results, key) # {}
  /\ SetMax(PageIds(results, key)) < a.min_id

\* The break of the early stop logic is taken after this page.
EarlyStop(a, key, results) ==
  /\ EarlyStopActive(a)
  /\ PageIds(results, key) # {}
  /\ SetMin(PageIds(results, key)) < a.min_id

\* ------------------------------------------------------------- the server
\* A response: a page (kind "page": results and next), or a failure:
\*   "transport"  session.get raises (connection, timeout, retries used up),
\*   "status"     a 4xx/5xx status that raise_for_status turns into HTTPError,
\*   "badjson"    a body r.json() cannot decode.
\* "unasked" marks a request the server has not answered yet.
Page(results, next) == [kind |-> "page", results |-> results, next |-> next]
Failure(kind) == [kind |-> kind, results |-> <<>>, next |-> NoUrl]
Unasked == Failure("unasked")
FailureKinds == {"transport", "status", "badjson"}

Urls == {DEFAULT_URL, ANCHOR_URL} \cup {PageUrl(i) : i \in 2..(MaxPages + 1)}

\* A request as the server tells requests apart: the URL, and whether a query
\* string was added to it (params=None and params={} add none).
ServerKeys == Urls \X BOOLEAN

\* The "next" values of a response: none, the base endpoint itself, another
\* locator.
NextLocs(a) == {NoUrl, Base(a), PageUrl(2)}

\* The answers to a new request, a page of at most n records among them.
Responses(a, n) ==
  {Failure(k) : k \in FailureKinds}
    \cup {Page(res, nx) : res \in ResultsPool(n), nx \in NextLocs(a)}

\* The server is deterministic: a request it has answered gets the same answer.
\* A URL that is none (session.get of "" or None) raises MissingSchema, a
\* RequestException, before anything is sent.
Respond(srv, key, a, n) ==
  IF key \notin DOMAIN srv THEN {Failure("transport")}
  ELSE IF srv[key].kind = "unasked" THEN Responses(a, n) ELSE {srv[key]}

RECURSIVE Flatten(_)
Flatten(ss) == IF ss = <<>> THEN <<>> ELSE ss[1] \o Flatten(Tail(ss))

\* The records a run may still be handed.
RecordsLeft(ps) ==
  IF Len(Flatten(ps)) < MaxRecords THEN MaxRecords - Len(Flatten(ps)) ELSE 0

\* The except clause that catches a failure of the request: transport and status
\* failures are RequestException; r.json() raises requests' JSONDecodeError (a
\* RequestException) or, with an older requests, a plain ValueError.
Handlers(kind) ==
  CASE kind \in {"transport", "status"} -> {"RequestException"}
    [] kind = "badjson" -> {"RequestException", "Exception"}
    [] OTHER -> {"none"}

\* ---------------------------------------------------------------- the run
Runs == {"main", "resumed"}

VARIABLES
  args,        \* the parsed command line of each run
  pc,          \* where each run is in main()
  id_key,      \* main(): id_key
  params,      \* main(): params
  url,         \* main(): url
  writer,      \* main(): writer (the csv.DictWriter, or None)
  page_count,  \* main(): page_count
  data,        \* main(): data, the decoded body of the current page
  idx,         \* the position of the for loop in results
  out,         \* the lines written to the output
  handle,      \* the output handle: "none", "stdout", "open", "closed"
  term,        \* how the loop ended: "running" until it has
  handler,     \* the except clause that ran, "none" if none did
  gets,        \* history: the GETs issued, <<url, params>> each
  pages,       \* history: the "results" of every decoded response
  opens,       \* history: the number of open() calls
  closes,      \* history: the number of close() calls
  server,      \* the server's answers so far
  mark,        \* the lines the main run had written when the resumed run's
               \* locator was captured (-1: nothing captured)
  environ,     \* RIPE_ATLAS_API_KEY and what is typed at the getpass prompt
  headers,     \* the headers of the session (make_session)
  status,      \* the exit status of the process, -1 while it runs
  sleeps       \* history: the page_count at each time.sleep call

vars ==
  <<args, pc, id_key, params, url, writer, page_count, data, idx, out, handle,
    term, handler, gets, pages, opens, closes, server, mark, environ, headers,
    status, sleeps>>

Upd(f, r, v) == [f EXCEPT ![r] = v]

NoWriter == [set |-> FALSE, fieldnames |-> <<>>]
DictWriter(fieldnames) == [set |-> TRUE, fieldnames |-> fieldnames]

\* open_out(path)
OpenOut(path) == IF path = "-" THEN "stdout" ELSE "open"

\* open(path, "w") raises OSError.
OpenFails(path) == path = BadPath

\* (mutant) the handle is closed whatever it is
CloseOutAlways(h) == "closed"

\* finally: if out is not sys.stdout: out.close()
CloseOut(h) == IF h # "stdout" THEN "closed" ELSE h

\* params=params if url == base else None
SentParams(u, base, p) ==
  IF u = base THEN [present |-> TRUE, dict |-> p]
              ELSE [present |-> FALSE, dict |-> {}]

\* (mutant) the parameters are kept after the first request
KeptParams(p) == p

\* params = {}  (after the first request)
ClearedParams(p) == {}

\* (mutant) the next-locator is read from a key the body does not carry
NextUrlMissing(d) == NoUrl

\* data.get("next")
NextUrl(d) == d.next

\* (mutant) the field names in the record's own order, not sorted
FieldnamesUnsorted(item) == [i \in DOMAIN item |-> item[i][1]]

\* fieldnames = sorted(item.keys())
Fieldnames(item) == SortedKeys(ItemKeys(item))

\* (mutant) the exception is caught inside the loop, which goes on
AfterRaiseContinue(r) == "loop"

\* (mutant) while True
LoopForever(u) == TRUE

\* while url
LoopGoesOn(u) == u # NoUrl

\* (mutant) the empty page is not looked for
NeverEmpty(results) == FALSE

\* if not results
IsEmptyPage(results) == results = <<>>

\* (mutant) the for loop is left after its first turn
AfterItemBreak(i, n) == "pageend"

\* Where a turn of the for loop leads: to the next item, or past the loop
\* after the last.
AfterItem(i, n) == IF i >= n THEN "pageend" ELSE "write"

\* (mutant) the delay is taken after every page
SleepsAlways(a, u) == TRUE

\* if url and args.sleep > 0
Sleeps(a, u) == u # NoUrl /\ a.sleep > 0

\* Where an exception raised in the try block leaves the run: the except
\* clauses only log, then the finally block runs.
AfterRaise(r) == "finally"

\* One turn of the for loop over results: the lines and the writer after it,
\* ok FALSE when DictWriter.writerow raises ValueError.
WriteOne(a, key, w, o, item) ==
  IF a.output = "ids"
    THEN [out |-> Append(o, <<PyStr(ItemGet(item, key))>>), writer |-> w, ok |-> TRUE]
  ELSE IF a.output = "jsonl"
    THEN [out |-> Append(o, JsonDumps(item)), writer |-> w, ok |-> TRUE]
  ELSE
    LET fn == IF w.set THEN w.fieldnames ELSE Fieldnames(item)
        o1 == IF w.set THEN o ELSE Append(o, fn)
    IN IF CsvExtras(fn, item) # {}
         THEN [out |-> o1, writer |-> DictWriter(fn), ok |-> FALSE]
         ELSE [out |-> Append(o1, CsvRow(fn, item)), writer |-> DictWriter(fn),
               ok |-> TRUE]

\* The command lines of the model.
\* The environment of a run: the variable RIPE_ATLAS_API_KEY ("" when unset
\* or empty) and what happens at the getpass prompt when it is shown.
Environs == [RIPE_ATLAS_API_KEY : {NoKey, EnvKey},
             getpass : {Cancelled, NoKey, TypedKey}]
NoEnviron == [RIPE_ATLAS_API_KEY |-> NoKey, getpass |-> NoKey]

ArgSet ==
  {a \in [endpoint : Endpoints, type : {"ping"}, af : {4},
          tags : {"anchoring,probes"}, sort : Sorts, page_size : {500},
          fields : {"id"}, extra : {ExtraNone, ExtraBad}, output : Outputs,
          outfile : Outfiles, resume_url : Urls \cup {NoUrl}, min_id : MinIds,
          sleep : {0}, prompt_key : {FALSE}, api_key : {NoKey}] :
     a.resume_url \in {NoUrl, Base(a), PageUrl(2)}}

InitEnv(a, e, srv) ==
  /\ args = [r \in Runs |-> a]
  /\ environ = [r \in Runs |-> e]
  /\ pc = [r \in Runs |-> IF r = "main" THEN "start" ELSE "idle"]
  /\ headers = [r \in Runs |-> {}]
  /\ status = [r \in Runs |-> -1]
  /\ sleeps = [r \in Runs |-> <<>>]
  /\ id_key = [r \in Runs |-> ""]
  /\ params = [r \in Runs |-> {}]
  /\ url = [r \in Runs |-> NoUrl]
  /\ writer = [r \in Runs |-> NoWriter]
  /\ page_count = [r \in Runs |-> 0]
  /\ data = [r \in Runs |-> Unasked]
  /\ idx = [r \in Runs |-> 0]
  /\ out = [r \in Runs |-> <<>>]
  /\ handle = [r \in Runs |-> "none"]
  /\ term = [r \in Runs |-> "running"]
  /\ handler = [r \in Runs |-> "none"]
  /\ gets = [r \in Runs |-> <<>>]
  /\ pages = [r \in Runs |-> <<>>]
  /\ opens = [r \in Runs |-> 0]
  /\ closes = [r \in Runs |-> 0]
  /\ server = srv
  /\ mark = -1

InitWith(a, srv) == InitEnv(a, NoEnviron, srv)

Init == \E a \in ArgSet : InitWith(a, [k \in ServerKeys |-> Unasked])

\* main(), from parse_args to make_session: the key (or exit 1 when the prompt
\* is cancelled) and the session with its headers.
Credentials(r) ==
  /\ pc[r] = "start"
  /\ LET k == GetApiKey(args[r], environ[r])
     IN IF k.exit
          THEN /\ pc' = Upd(pc, r, "exited")
               /\ term' = Upd(term, r, "cancelled")
               /\ status' = Upd(status, r, 1)
               /\ UNCHANGED headers
          ELSE /\ pc' = Upd(pc, r, "setup")
               /\ headers' = Upd(headers, r, MakeSession(k.key))
               /\ UNCHANGED <<term, status>>
  /\ UNCHANGED <<args, environ, id_key, params, url, writer, page_count, data,
                 idx, out, handle, handler, gets, pages, opens, closes, server,
                 mark, sleeps>>

\* main(), from the choice of the endpoint to writer = None: id_key, params with
\* --extra merged (or exit 1), url, open_out (or the OSError of open, which
\* nothing catches).
Setup(r) ==
  /\ pc[r] = "setup"
  /\ id_key' = Upd(id_key, r, IdKey(args[r]))
  /\ IF ExtraInvalid(args[r])
       THEN /\ pc' = Upd(pc, r, "exited")
            /\ term' = Upd(term, r, "bad-extra")
            /\ status' = Upd(status, r, 1)
            /\ params' = Upd(params, r, BaseParams(args[r]))
            /\ UNCHANGED <<url, handle, opens>>
       ELSE /\ params' = Upd(params, r, BuildParams(args[r]))
            /\ url' = Upd(url, r, StartUrl(args[r]))
            /\ IF OpenFails(args[r].outfile)
                 THEN /\ pc' = Upd(pc, r, "crashed")
                      /\ term' = Upd(term, r, "open-error")
                      /\ status' = Upd(status, r, 1)
                      /\ UNCHANGED <<handle, opens>>
                 ELSE /\ pc' = Upd(pc, r, "loop")
                      /\ handle' = Upd(handle, r, OpenOut(args[r].outfile))
                      /\ opens' = Upd(opens, r, IF args[r].outfile = "-"
                                                  THEN 0 ELSE 1)
                      /\ UNCHANGED <<term, status>>
  /\ UNCHANGED <<args, environ, headers, writer, page_count, data, idx, out,
                 handler, gets, pages, closes, server, mark, sleeps>>

\* One pass of the while loop down to the empty-page test: the GET,
\* raise_for_status, r.json(), results.
Fetch(r) ==
  /\ pc[r] = "loop"
  /\ page_count[r] < MaxPages
  /\ LET a == args[r]
         sent == SentParams(url[r], Base(a), params[r])
         key == <<url[r], sent.dict # {}>>
     IN \E resp \in Respond(server, key, a, RecordsLeft(pages[r])) : \E h \in Handlers(resp.kind) :
          /\ page_count' = Upd(page_count, r, page_count[r] + 1)
          /\ gets' = Upd(gets, r, Append(gets[r],
                         [url |-> url[r], params |-> sent, headers |-> headers[r]]))
          /\ server' = IF key \in DOMAIN server
                         THEN [server EXCEPT ![key] = resp] ELSE server
          /\ handler' = Upd(handler, r, h)
          /\ IF resp.kind # "page"
               THEN /\ term' = Upd(term, r, resp.kind)
                    /\ pc' = Upd(pc, r, AfterRaise(r))
                    /\ UNCHANGED <<data, pages, idx>>
               ELSE /\ data' = Upd(data, r, resp)
                    /\ pages' = Upd(pages, r, Append(pages[r], resp.results))
                    /\ IF IsEmptyPage(resp.results)
                         THEN /\ term' = Upd(term, r, "exhausted")
                              /\ pc' = Upd(pc, r, "finally")
                              /\ UNCHANGED idx
                         ELSE /\ pc' = Upd(pc, r, AfterItem(0, Len(resp.results)))
                              /\ idx' = Upd(idx, r, 1)
                              /\ UNCHANGED term
  /\ UNCHANGED <<args, environ, headers, status, sleeps, id_key, params, url,
                 writer, out, handle, opens, closes, mark>>

\* One turn of `for item in results`.
WriteItem(r) ==
  /\ pc[r] = "write"
  /\ LET item == data[r].results[idx[r]]
         w == WriteOne(args[r], id_key[r], writer[r], out[r], item)
     IN /\ out' = Upd(out, r, w.out)
        /\ writer' = Upd(writer, r, w.writer)
        /\ IF ~w.ok
             THEN /\ term' = Upd(term, r, "write-error")
                  /\ handler' = Upd(handler, r, "Exception")
                  /\ pc' = Upd(pc, r, AfterRaise(r))
                  /\ UNCHANGED idx
             ELSE /\ idx' = Upd(idx, r, idx[r] + 1)
                  /\ pc' = Upd(pc, r, AfterItem(idx[r], Len(data[r].results)))
                  /\ UNCHANGED <<term, handler>>
  /\ UNCHANGED <<args, environ, headers, status, sleeps, id_key, params, url,
                 page_count, data, handle, gets, pages, opens, closes, server,
                 mark>>

\* The end of a pass of the while loop: the early stop, url = data.get("next"),
\* params = {}, the delay, and the loop test `while url`.
PageEnd(r) ==
  /\ pc[r] = "pageend"
  /\ IF EarlyStop(args[r], id_key[r], data[r].results)
       THEN /\ term' = Upd(term, r, "stopped-early")
            /\ pc' = Upd(pc, r, "finally")
            /\ UNCHANGED <<url, params, sleeps>>
       ELSE /\ url' = Upd(url, r, NextUrl(data[r]))
            /\ params' = Upd(params, r, ClearedParams(params[r]))
            /\ sleeps' = Upd(sleeps, r, IF Sleeps(args[r], NextUrl(data[r]))
                                          THEN Append(sleeps[r], page_count[r])
                                          ELSE sleeps[r])
            /\ IF LoopGoesOn(NextUrl(data[r]))
                 THEN /\ pc' = Upd(pc, r, "loop")
                      /\ UNCHANGED term
                 ELSE /\ term' = Upd(term, r, "complete")
                      /\ pc' = Upd(pc, r, "finally")
  /\ UNCHANGED <<args, environ, headers, status, id_key, writer, page_count,
                 data, idx, out, handle, handler, gets, pages, opens, closes,
                 server, mark>>

\* The finally block, and the return of main(): the process ends with status 0.
Finally(r) ==
  /\ pc[r] = "finally"
  /\ handle' = Upd(handle, r, CloseOut(handle[r]))
  /\ closes' = Upd(closes, r, IF CloseOut(handle[r]) # handle[r]
                                THEN closes[r] + 1 ELSE closes[r])
  /\ pc' = Upd(pc, r, "done")
  /\ status' = Upd(status, r, 0)
  /\ UNCHANGED <<args, environ, headers, sleeps, id_key, params, url, writer,
                 page_count, data, idx, out, term, handler, gets, pages, opens,
                 server, mark>>

Step(r) ==
  Credentials(r) \/ Setup(r) \/ Fetch(r) \/ WriteItem(r) \/ PageEnd(r) \/ Finally(r)

Next == Step("main")

Spec == Init /\ [][Next]_vars

\* ---------------------------------------------- a server that pages a data set
\* The server holds the records ds and serves them P per page: page 1 at the
\* base endpoint with the query, page i at PageUrl(i), "next" on every page but
\* the last.
Ceil(n, p) == (n + p - 1) \div p

Datasets == SeqsUpTo(RecordPool, MaxRecords)

PageSizes == 1..MaxRecords

PagedResponse(ds, P, i) ==
  LET last == IF i * P < Len(ds) THEN i * P ELSE Len(ds)
  IN Page(SubSeq(ds, (i - 1) * P + 1, last),
          IF i * P < Len(ds) THEN PageUrl(i + 1) ELSE NoUrl)

PagedServer(ds, P, base) ==
  [k \in ServerKeys |->
     IF k = <<base, TRUE>> THEN PagedResponse(ds, P, 1)
     ELSE IF ~k[2] /\ \E i \in 2..(MaxPages + 1) :
                         k[1] = PageUrl(i) /\ (i - 1) * P < Len(ds)
       THEN PagedResponse(ds, P, CHOOSE i \in 2..(MaxPages + 1) : k[1] = PageUrl(i))
       ELSE Unasked]

\* The command lines of a run from the base endpoint with page size P.
PagedArgSet(P) ==
  {[a EXCEPT !.page_size = P] :
     a \in {b \in ArgSet : b.resume_url = NoUrl /\ b.extra = ExtraNone}}

InitPaged ==
  \E ds \in Datasets : \E P \in PageSizes : \E a \in PagedArgSet(P) :
    InitWith(a, PagedServer(ds, P, Base(a)))

SpecPaged == InitPaged /\ [][Next]_vars

\* --------------------------------------------------- a two-page fixture
\* A canned server of two pages: the first request gets two records and the
\* locator of page 2, page 2 gets one record and no locator.
FixtureServer(r1, r2, r3, base) ==
  [k \in ServerKeys |->
     IF k = <<base, TRUE>> THEN Page(<<r1, r2>>, PageUrl(2))
     ELSE IF k = <<PageUrl(2), FALSE>> THEN Page(<<r3>>, NoUrl)
     ELSE Unasked]

InitFixture ==
  \E a \in {b \in ArgSet : b.resume_url = NoUrl /\ b.extra = ExtraNone
                            /\ b.output = "jsonl"} :
    \E r1 \in RecordPool, r2 \in RecordPool, r3 \in RecordPool :
      InitWith(a, FixtureServer(r1, r2, r3, Base(a)))

\* The same command line is run again once the first run has returned.
StartAgain ==
  /\ pc["main"] = "done"
  /\ pc["resumed"] = "idle"
  /\ pc' = [pc EXCEPT !["resumed"] = "start"]
  /\ UNCHANGED <<args, id_key, params, url, writer, page_count, data, idx, out,
                 handle, term, handler, gets, pages, opens, closes, server,
                 mark, environ, headers, status, sleeps>>

NextFixture ==
  \/ Step("main")
  \/ StartAgain
  \/ (pc["main"] = "done" /\ Step("resumed"))

SpecFixture == InitFixture /\ [][NextFixture]_vars

\* ------------------------------------------------- the delay between pages
\* Runs over the values of --sleep: none (the default 0.0), a positive delay
\* and a negative one.
SleepArgSet ==
  {a \in [endpoint : Endpoints, type : {"ping"}, af : {4},
          tags : {"anchoring,probes"}, sort : {SortDesc}, page_size : {500},
          fields : {"id"}, extra : {ExtraNone}, output : {"ids", "csv"},
          outfile : {"-"}, resume_url : {NoUrl, PageUrl(2)}, min_id : MinIds,
          sleep : {-1, 0, 1}, prompt_key : {FALSE}, api_key : {NoKey}] : TRUE}

InitSleep == \E a \in SleepArgSet : InitWith(a, [k \in ServerKeys |-> Unasked])

SpecSleep == InitSleep /\ [][Next]_vars

\* ------------------------------------------- credentials and overrides
\* Runs over the ways a key can be given and over the texts of --extra, from
\* the base endpoint, sorted by descending id.
InvokeArgSet ==
  {a \in [endpoint : Endpoints, type : {"ping"}, af : {4},
          tags : {"anchoring,probes"}, sort : {SortDesc}, page_size : {500},
          fields : {"id"}, extra : Extras, output : {"csv"},
          outfile : Outfiles, resume_url : {NoUrl}, min_id : MinIds,
          sleep : {0}, prompt_key : BOOLEAN, api_key : {NoKey, ArgKey}] : TRUE}

\* Nothing is typed where no prompt is shown.
InvokeEnvirons(a) == {e \in Environs : ~a.prompt_key => e.getpass = NoKey}

InitInvoke ==
  \E a \in InvokeArgSet : \E e \in InvokeEnvirons(a) :
    InitEnv(a, e, [k \in ServerKeys |-> Unasked])

SpecInvoke == InitInvoke /\ [][Next]_vars

\* The process is scheduled until it ends: a step that can be taken is taken.
SpecPagedLive == InitPaged /\ [][Next]_vars /\ WF_vars(Next)

\* -------------------------------------------------- a second, resumed run
\* The locator the main run has just followed (its url at the top of the loop,
\* after at least one page) is captured and given to a second run of the same
\* command line as --resume-url.
StartResume ==
  /\ pc["main"] = "loop"
  /\ page_count["main"] >= 1
  /\ pc["resumed"] = "idle"
  /\ mark' = Len(out["main"])
  /\ args' = [args EXCEPT !["resumed"] =
                [args["main"] EXCEPT !.resume_url = url["main"]]]
  /\ pc' = [pc EXCEPT !["resumed"] = "start"]
  /\ UNCHANGED <<id_key, params, url, writer, page_count, data, idx, out, handle,
                 term, handler, gets, pages, opens, closes, server, environ,
                 headers, status, sleeps>>

\* The uninterrupted run starts at the base endpoint.  The two runs are
\* compared line by line, so the tabular mode, whose first line is a header
\* drawn from the first record a run writes, is left out.
InitResume ==
  \E a \in {b \in ArgSet : b.resume_url = NoUrl /\ b.output # "csv"
                            /\ b.extra = ExtraNone} :
    InitWith(a, [k \in ServerKeys |-> Unasked])

\* The second run starts when the first has ended.
NextResume ==
  \/ Step("main")
  \/ StartResume
  \/ (pc["main"] = "done" /\ Step("resumed"))

SpecResume == InitResume /\ [][NextResume]_vars

\* ================================================================== claims
\* The records of every page a run has decoded, in fetch order.
Fetched(r) == Flatten(pages[r])

\* A GET that carries no query parameters: params is None or an empty dict.
NoQuery(g) == ~g.params.present \/ g.params.dict = {}

\* C1: every GET of a run after its first is sent with no query parameters,
\* whatever next-locator the server returned (the base endpoint included).
C1_NoParamsAfterFirst ==
  \A r \in Runs : \A i \in 2..Len(gets[r]) : NoQuery(gets[r][i])

\* C1 witness: a first GET with parameters, whose page named the base endpoint
\* itself as next, and a second GET to that locator.
C1_Witness ==
  /\ Len(gets["main"]) >= 2
  /\ ~NoQuery(gets["main"][1])
  /\ gets["main"][2].url = Base(args["main"])

\* C2: with a non-empty resume locator the first GET goes to that locator and
\* carries no query parameters, for every resume locator.
C2_ResumeNoParams ==
  \A r \in Runs :
    (args[r].resume_url # NoUrl /\ Len(gets[r]) >= 1) =>
      /\ gets[r][1].url = args[r].resume_url
      /\ NoQuery(gets[r][1])

\* The run ended without early stop and without failure.
EndedPlain(r) == pc[r] = "done" /\ term[r] \in {"complete", "exhausted"}

\* The server of the state pages the data set ds, P per page, for the main run.
ServesPaged(ds, P) ==
  /\ args["main"].page_size = P
  /\ args["main"].resume_url = NoUrl
  /\ \A k \in ServerKeys :
       PagedServer(ds, P, Base(args["main"]))[k].kind = "page" =>
         server[k] = PagedServer(ds, P, Base(args["main"]))[k]

\* C3 (as stated): against a server that holds N records and serves them P per
\* page, a run that ends with no early stop and no failure has issued exactly
\* ceil(N/P) GETs, for every N.
C3_CeilFetches ==
  \A ds \in Datasets : \A P \in PageSizes :
    (ServesPaged(ds, P) /\ EndedPlain("main")) =>
      Len(gets["main"]) = Ceil(Len(ds), P)

\* C3 (amended): such a run has issued exactly ceil(N/P) GETs when N >= 1, and
\* exactly one GET (answered by the empty page) when N = 0.
C3_CeilFetchesOrOne ==
  \A ds \in Datasets : \A P \in PageSizes :
    (ServesPaged(ds, P) /\ EndedPlain("main")) =>
      Len(gets["main"]) = (IF Len(ds) = 0 THEN 1 ELSE Ceil(Len(ds), P))

\* C3 witness: a data set of two records served one per page, fetched to its
\* end in two GETs.
C3_Witness ==
  /\ \E ds \in Datasets : Len(ds) = 2 /\ ServesPaged(ds, 1)
  /\ EndedPlain("main")
  /\ Len(gets["main"]) = 2

\* The sort orders of the model that are descending by identifier.
DescendingById(a) == a.sort \in {SortDesc, SortPadded}

\* Page i of run r holds an integer-valued identifier below the threshold, so
\* its minimum integer-valued identifier is below it.
BelowThreshold(r, i) ==
  \E j \in DOMAIN pages[r][i] :
    LET v == ItemGet(pages[r][i][j], id_key[r])
    IN IsInt(v) /\ v.n < args[r].min_id

\* The records of the pages of run r that the for loop has written.
WrittenCount(r) ==
  IF pc[r] = "write" \/ term[r] = "write-error"
    THEN Len(Fetched(r)) - Len(pages[r][Len(pages[r])]) + idx[r] - 1
    ELSE Len(Fetched(r))

\* The lines of out that are records (the tabular header is none).
DataLineCount(r) == IF writer[r].set THEN Len(out[r]) - 1 ELSE Len(out[r])

\* C4: with a threshold and a sort descending by identifier, a page whose
\* minimum integer identifier is below the threshold is the last page fetched:
\* no GET follows it, the run stops early once the page is written, all its
\* records are in the output by then, and no earlier page stopped the run.
C4_EarlyStop ==
  \A r \in Runs :
    (args[r].min_id # 0 /\ DescendingById(args[r])) =>
      /\ \A i \in DOMAIN pages[r] :
           BelowThreshold(r, i) =>
             /\ i = Len(pages[r])
             /\ Len(gets[r]) = i
             /\ pc[r] \in {"write", "pageend", "finally", "done"}
             /\ (pc[r] \in {"finally", "done"} /\ term[r] # "write-error") =>
                  term[r] = "stopped-early"
      /\ term[r] = "stopped-early" =>
           /\ pages[r] # <<>>
           /\ BelowThreshold(r, Len(pages[r]))
           /\ \A i \in 1..(Len(pages[r]) - 1) : ~BelowThreshold(r, i)
           /\ DataLineCount(r) = Len(Fetched(r))

\* C4 witness: the second page stopped the run although it carried a
\* next-locator, and the first did not.
C4_Witness ==
  /\ pc["main"] = "done"
  /\ term["main"] = "stopped-early"
  /\ Len(pages["main"]) = 2
  /\ data["main"].next # NoUrl
  /\ Len(out["main"]) >= 2

\* C5: with an ascending sort the early stop never ends the run, whatever the
\* threshold and the pages: the run ends by an empty page, a missing
\* next-locator or a failure.
C5_AscendingNeverStops ==
  \A r \in Runs :
    args[r].sort = SortAsc =>
      /\ term[r] # "stopped-early"
      /\ pc[r] \in {"finally", "done"} =>
           term[r] \in {"exhausted", "complete", "transport", "status",
                        "badjson", "write-error"}

\* C5 witness: ascending sort, a threshold, a first page with an identifier
\* below it, and a second GET all the same.
C5_Witness ==
  /\ args["main"].sort = SortAsc
  /\ args["main"].min_id # 0
  /\ Len(gets["main"]) = 2
  /\ BelowThreshold("main", 1)

\* The identifier field the claim names for an endpoint and an output mode.
ClaimedField(a) ==
  IF a.endpoint = "anchor-measurements" /\ a.output = "ids"
    THEN "measurement" ELSE "id"

\* C6: from the first request on id_key is the field the endpoint and the
\* output mode select ("measurement" for anchor-measurements in ids mode, "id"
\* otherwise); every line of ids output is that field of its record, and every
\* line of record-stream output is the record itself, its own id included.
C6_IdentifierField ==
  \A r \in Runs :
    pc[r] \notin {"idle", "start", "setup"} =>
      /\ id_key[r] = ClaimedField(args[r])
      /\ args[r].output = "ids" =>
           \A i \in DOMAIN out[r] :
             out[r][i] = <<PyStr(ItemGet(Fetched(r)[i], ClaimedField(args[r])))>>
      /\ args[r].output = "jsonl" =>
           \A i \in DOMAIN out[r] : out[r][i] = JsonDumps(Fetched(r)[i])

\* C6 witness: anchor-measurements in ids mode wrote the measurement (1) of a
\* record whose own id is 3.
C6_Witness ==
  /\ args["main"].endpoint = "anchor-measurements"
  /\ args["main"].output = "ids"
  /\ Len(out["main"]) >= 1
  /\ Fetched("main")[1] = RecA
  /\ out["main"][1] = <<"1">>

\* The position of a field name in the lexicographic order.
KeyRank(k) == CHOOSE i \in DOMAIN KeyOrder : KeyOrder[i] = k

\* h lists exactly the keys of item, in lexicographic order.
IsSortedKeySet(h, item) ==
  /\ Range(h) = ItemKeys(item)
  /\ \A i, j \in DOMAIN h : i < j => KeyRank(h[i]) < KeyRank(h[j])

\* C7: in tabular mode nothing is written before the header; the header is
\* written once, as the first line, and is the sorted key set of the first
\* record written; every later line is one record's row and has as many cells
\* as the header.
C7_TabularHeader ==
  \A r \in Runs :
    args[r].output = "csv" =>
      /\ ~writer[r].set => out[r] = <<>>
      /\ writer[r].set =>
           /\ out[r] # <<>>
           /\ out[r][1] = writer[r].fieldnames
           /\ IsSortedKeySet(out[r][1], Fetched(r)[1])
           /\ Len(out[r]) = 1 + WrittenCount(r)
           /\ \A i \in 2..Len(out[r]) : Len(out[r][i]) = Len(out[r][1])

\* C7 witness: the header of a record listed as (measurement, id), and the row
\* of a later page's record that has no measurement.
C7_Witness ==
  /\ args["main"].output = "csv"
  /\ Len(pages["main"]) = 2
  /\ Fetched("main")[1] = RecC
  /\ out["main"] = << <<"id", "measurement">>, <<"x", "3">>, <<"1", "">> >>

\* C8: a run resumed from the next-locator captured after page k of an
\* uninterrupted run writes exactly the lines the uninterrupted run wrote
\* after page k, and ends the same way.
C8_ResumeSameSuffix ==
  (mark >= 0 /\ pc["main"] = "done" /\ pc["resumed"] = "done") =>
    /\ out["resumed"] = SubSeq(out["main"], mark + 1, Len(out["main"]))
    /\ term["resumed"] = term["main"]

\* C9 (as stated): every run that has ended opened its output handle once and
\* released it exactly once, on standard output and on a named file.
C9_ReleasedOnce ==
  \A r \in Runs : pc[r] = "done" => (opens[r] = 1 /\ closes[r] = 1)

\* The handle of run r is in step with the run: a named file is opened once
\* before the loop, open during it and closed once by the time the run is
\* done; standard output is neither opened nor closed by the run.
HandleInStep(r) ==
  IF args[r].outfile = "-"
    THEN /\ opens[r] = 0
         /\ closes[r] = 0
         /\ pc[r] \in {"loop", "write", "pageend", "finally", "done"} =>
              handle[r] = "stdout"
    ELSE /\ pc[r] \in {"loop", "write", "pageend", "finally"} =>
              (opens[r] = 1 /\ closes[r] = 0 /\ handle[r] = "open")
         /\ pc[r] = "done" =>
              (opens[r] = 1 /\ closes[r] = 1 /\ handle[r] = "closed")

\* C9 (amended): a named file is opened once and closed exactly once on every
\* way the loop can end; standard output is never closed by the run; and no
\* line is written to a handle that has been closed.
C9_FileReleasedOnce ==
  /\ [](\A r \in Runs : HandleInStep(r))
  /\ [][\A r \in Runs : handle[r] = "closed" => out'[r] = out[r]]_vars

\* C9 witness: a run to a named file that ended by the ValueError of the csv
\* writer, its file closed once.
C9_Witness ==
  /\ pc["main"] = "done"
  /\ args["main"].outfile # "-"
  /\ term["main"] = "write-error"
  /\ handler["main"] = "Exception"
  /\ closes["main"] = 1

\* The line the output mode of run r makes of a record, in tabular mode
\* against the header the run wrote.
LineOf(r, item) ==
  CASE args[r].output = "ids" -> <<PyStr(ItemGet(item, id_key[r]))>>
    [] args[r].output = "jsonl" -> JsonDumps(item)
    [] OTHER -> CsvRow(out[r][1], item)

\* The output of run r is the records of its decoded pages, each written in
\* full and in order (after the header, in tabular mode).
HoldsFetchedPages(r) ==
  LET h == IF args[r].output = "csv" /\ Fetched(r) # <<>> THEN 1 ELSE 0
  IN /\ Len(out[r]) = h + Len(Fetched(r))
     /\ \A i \in DOMAIN Fetched(r) : out[r][h + i] = LineOf(r, Fetched(r)[i])

\* C10: when the GET for page k fails (transport, status, undecodable body)
\* the run leaves the loop, that GET stays the last one, and the output is
\* exactly the records of pages 1..k-1.
C10_FailedGetEndsRun ==
  \A r \in Runs :
    term[r] \in FailureKinds =>
      /\ pc[r] \in {"finally", "done"}
      /\ Len(gets[r]) = Len(pages[r]) + 1
      /\ HoldsFetchedPages(r)

\* C10 witness: the third GET failed on its status after two pages of one
\* record each, and the run is done.
C10_Witness ==
  /\ pc["main"] = "done"
  /\ term["main"] = "status"
  /\ Len(gets["main"]) = 3
  /\ Len(out["main"]) >= 2
\* The process of run r has ended.
Ended(r) == pc[r] \in {"exited", "crashed", "done"}

\* C11: the exit status of an ended run is non-zero when it ended by the
\* cancelled key prompt or by an --extra text that is no JSON, and zero on every
\* other ending.
C11_ExitStatus ==
  \A r \in Runs :
    Ended(r) =>
      status[r] = IF term[r] \in {"cancelled", "bad-extra"} THEN 1 ELSE 0

\* The key prompt of run r is shown and cancelled.
PromptCancelled(r) ==
  args[r].prompt_key /\ environ[r].getpass = Cancelled

\* C12: a run whose key prompt is cancelled, or whose --extra text is no JSON,
\* ends before its loop: at every state it has sent no GET, written nothing and
\* opened nothing, and it has exited once it is past the failing step.
C12_ExitBeforeAnyRequest ==
  \A r \in Runs :
    (pc[r] # "idle" /\ (PromptCancelled(r) \/ args[r].extra = ExtraBad)) =>
      /\ gets[r] = <<>>
      /\ out[r] = <<>>
      /\ opens[r] = 0 /\ handle[r] = "none"
      /\ pc[r] \in {"start", "setup", "exited"}
      /\ PromptCancelled(r) => pc[r] \in {"start", "exited"}
      /\ pc[r] = "exited" =>
           term[r] = IF PromptCancelled(r) THEN "cancelled" ELSE "bad-extra"

C12_Witness ==
  /\ pc["main"] = "exited" /\ term["main"] = "bad-extra"
  /\ args["main"].outfile = "out.txt"
  /\ headers["main"] # {}

\* What a JSON reader makes of the tokens of a line: an integer literal is an
\* integer, a double-quoted text is a string, null is None; anything else is
\* not JSON.
Undecodable == [t |-> "error", n |-> 0, s |-> ""]
JsonDecodeScalar(tok) ==
  IF tok = "null" THEN None
  ELSE IF \E n \in -1..9 : tok = ToString(n)
    THEN IntV(CHOOSE n \in -1..9 : tok = ToString(n))
  ELSE IF \E k \in Range(KeyOrder) \cup {"x"} : tok = ToString(k)
    THEN StrV(CHOOSE k \in Range(KeyOrder) \cup {"x"} : tok = ToString(k))
  ELSE Undecodable

JsonDecodeKey(tok) ==
  IF \E k \in Range(KeyOrder) : tok = ToString(k)
    THEN CHOOSE k \in Range(KeyOrder) : tok = ToString(k)
    ELSE "<undecodable>"

JsonDecode(line) ==
  [i \in 1..(Len(line) \div 2) |->
     <<JsonDecodeKey(line[2 * i - 1]), JsonDecodeScalar(line[2 * i])>>]

PrefixOfFetched(r) ==
  LET h == IF writer[r].set THEN 1 ELSE 0
  IN /\ Len(out[r]) <= h + Len(Fetched(r))
     /\ \A i \in 1..(Len(out[r]) - h) : out[r][h + i] = LineOf(r, Fetched(r)[i])

\* C14: a run is one strict sequence: every GET has been answered (a decoded
\* page or a failure that ended the loop) before anything else happens, a GET
\* is sent only when every record of the pages before it is written, the
\* output is always a prefix of the records of the fetched pages in order, and
\* each step sends at most one GET and only appends to the output.
C14_Sequential ==
  /\ [](\A r \in Runs :
          /\ PrefixOfFetched(r)
          /\ Len(gets[r]) = page_count[r]
          /\ Len(gets[r]) - Len(pages[r]) =
               (IF term[r] \in FailureKinds THEN 1 ELSE 0)
          /\ pc[r] = "loop" => DataLineCount(r) = Len(Fetched(r)))
  /\ [][\A r \in Runs :
          /\ Len(out'[r]) >= Len(out[r])
          /\ SubSeq(out'[r], 1, Len(out[r])) = out[r]
          /\ Len(gets'[r]) <= Len(gets[r]) + 1
          /\ SubSeq(gets'[r], 1, Len(gets[r])) = gets[r]
          /\ Len(gets'[r]) > Len(gets[r]) =>
               pc[r] = "loop" /\ DataLineCount(r) = Len(Fetched(r))]_vars

C14_Witness ==
  /\ pc["main"] = "loop"
  /\ Len(gets["main"]) = 2
  /\ Len(out["main"]) = 3
  /\ args["main"].output = "csv"

\* The override object of a command line (none when --extra is not given).
Override(a) == IF a.extra = ExtraNone THEN {} ELSE JsonLoads(a.extra).obj

\* The value the tool's own options give a query parameter.
ToolValue(a, k) ==
  CASE k = "sort" -> StrV(Join(a.sort))
    [] k = "page_size" -> IntV(a.page_size)
    [] k = "fields" -> StrV(a.fields)
    [] k = "type" -> StrV(a.type)
    [] k = "af" -> IntV(a.af)
    [] k = "tags" -> StrV(a.tags)

\* The parameter names the tool sends of its own for an endpoint.
ToolKeys(a) ==
  {"sort", "page_size", "fields"}
    \cup (IF a.endpoint = "measurements" THEN {"type", "af", "tags"} ELSE {})

\* C15: the first GET to the base endpoint carries sort, page_size and fields on
\* both endpoints, type, af and tags on the plain endpoint only, and the keys of
\* the override object; a key the override names has the override's value,
\* every other key the value of the tool's own option.
C15_FirstRequestParams ==
  \A r \in Runs :
    (Len(gets[r]) >= 1 /\ gets[r][1].url = Base(args[r])) =>
      LET d == gets[r][1].params.dict
          ov == Override(args[r])
      IN /\ gets[r][1].params.present
         /\ DictKeys(d) = ToolKeys(args[r]) \cup DictKeys(ov)
         /\ \A p \in d :
              IF p[1] \in DictKeys(ov) THEN p \in ov
                                       ELSE p[2] = ToolValue(args[r], p[1])

C15_Witness ==
  /\ Len(gets["main"]) >= 1
  /\ args["main"].extra = ExtraSort
  /\ args["main"].endpoint = "anchor-measurements"
  /\ <<"sort", StrV("id")>> \in gets["main"][1].params.dict
  /\ <<"status", IntV(1)>> \in gets["main"][1].params.dict

\* The key the claimed priority order gives a run whose prompt, if shown, is
\* not cancelled: the prompt's result when --prompt-key is given, else the
\* environment variable when it is set, else --api-key, else none.
ClaimedKey(r) ==
  IF args[r].prompt_key THEN environ[r].getpass
  ELSE IF environ[r].RIPE_ATLAS_API_KEY # "" THEN environ[r].RIPE_ATLAS_API_KEY
  ELSE args[r].api_key

\* The Authorization values among a set of headers.
Authorizations(h) == {p[2] : p \in {q \in h : q[1] = "Authorization"}}

\* C16: the key of a run is the prompt's result when the prompt is requested,
\* else the environment variable when set, else the command-line argument, else
\* none; a lower source is used only when every higher one gives no key; and
\* the session, and every GET sent with it, carries the Authorization header
\* "Key <key>" exactly when a key was obtained.
C16_KeyPriority ==
  \A r \in Runs :
    (pc[r] \notin {"idle", "start"} /\ ~PromptCancelled(r)) =>
      /\ Authorizations(headers[r]) =
           (IF ClaimedKey(r) = "" THEN {} ELSE {"Key " \o ClaimedKey(r)})
      /\ \A i \in DOMAIN gets[r] : gets[r][i].headers = headers[r]
      /\ ("Key " \o ArgKey) \in Authorizations(headers[r]) =>
           ~args[r].prompt_key /\ environ[r].RIPE_ATLAS_API_KEY = ""
      /\ ("Key " \o EnvKey) \in Authorizations(headers[r]) => ~args[r].prompt_key

C16_Witness ==
  /\ Len(gets["main"]) >= 1
  /\ ~args["main"].prompt_key
  /\ environ["main"].RIPE_ATLAS_API_KEY = EnvKey
  /\ args["main"].api_key = ArgKey
  /\ <<"Authorization", "Key " \o EnvKey>> \in gets["main"][1].headers

\* The run r has left its loop by neither a failed GET nor a failed write.
LeftLoopUnfailed(r) ==
  pc[r] \in {"finally", "done"} /\ term[r] \notin FailureKinds \cup {"write-error"}

\* C17: an empty page is the last page of its run: the run ends there, with no
\* GET after it and nothing of it written, whether or not it names a next
\* locator; a run that ends as complete ended on a non-empty page with no next
\* locator, written in full; a non-empty page that names a next locator and
\* does not meet the early-stop condition does not end the run, and the one GET
\* that follows it goes to that locator.
C17_PageEndings ==
  /\ [](\A r \in Runs :
          /\ \A i \in DOMAIN pages[r] :
               pages[r][i] = <<>> =>
                 /\ i = Len(pages[r]) /\ Len(gets[r]) = i
                 /\ pc[r] \in {"finally", "done"} /\ term[r] = "exhausted"
                 /\ HoldsFetchedPages(r)
          /\ term[r] = "complete" =>
               /\ data[r].results # <<>> /\ data[r].next = NoUrl
               /\ pc[r] \in {"finally", "done"}
               /\ Len(gets[r]) = Len(pages[r])
               /\ HoldsFetchedPages(r)
          /\ (LeftLoopUnfailed(r) /\ data[r].results # <<>>
                /\ data[r].next # NoUrl) =>
               /\ term[r] = "stopped-early"
               /\ args[r].min_id # 0 /\ DescendingById(args[r])
               /\ BelowThreshold(r, Len(pages[r]))
          /\ (pc[r] = "loop" /\ page_count[r] >= 1) =>
               url[r] = data[r].next /\ url[r] # NoUrl)
  /\ [][\A r \in Runs :
          (Len(gets'[r]) > Len(gets[r]) /\ Len(gets[r]) >= 1) =>
            /\ Len(gets'[r]) = Len(gets[r]) + 1
            /\ gets'[r][Len(gets'[r])].url = data[r].next
            /\ data[r].results # <<>>]_vars

C17_Witness ==
  /\ pc["main"] = "done" /\ term["main"] = "exhausted"
  /\ Len(pages["main"]) = 2
  /\ data["main"].next # NoUrl
  /\ Len(out["main"]) >= 1

\* C18: the delay is taken only between two pages: never with a delay of zero
\* (the default) or below, never before the first GET, never after the page a
\* run ends on; with a positive delay it is taken once after every page that is
\* written in full, names a next locator and does not stop the run early, and
\* at no other step.
C18_DelayBetweenPages ==
  /\ [](\A r \in Runs :
          /\ args[r].sleep <= 0 => sleeps[r] = <<>>
          /\ Len(sleeps[r]) <= Len(gets[r])
          /\ \A i \in DOMAIN sleeps[r] :
               /\ sleeps[r][i] = i
               /\ pages[r][i] # <<>>
          /\ (args[r].sleep > 0 /\ page_count[r] >= 1) =>
               Len(sleeps[r]) =
                 (IF pc[r] = "loop" THEN page_count[r] ELSE page_count[r] - 1)
          /\ pc[r] \in {"finally", "done"} => Len(sleeps[r]) < Len(gets[r]))
  /\ [][\A r \in Runs :
          sleeps'[r] # sleeps[r] =>
            /\ args[r].sleep > 0
            /\ pc[r] = "pageend" /\ pc'[r] = "loop"
            /\ data[r].next # NoUrl /\ url'[r] = data[r].next
            /\ HoldsFetchedPages(r)
            /\ sleeps'[r] = Append(sleeps[r], Len(gets[r]))]_vars

C18_Witness ==
  /\ pc["main"] = "done" /\ term["main"] = "complete"
  /\ args["main"].sleep > 0
  /\ sleeps["main"] = <<1>>
  /\ Len(gets["main"]) = 2

\* The locators of the server's chain: the requests it answers with a page.
ChainLocators == {k[1] : k \in {j \in ServerKeys : server[j].kind = "page"}}

\* C19: against a server whose chain of next locators is finite, a run
\* eventually ends with its output handle released (a named file closed once,
\* standard output left as it is); it sends at most one GET to each locator of
\* the chain and none elsewhere; and it is never the bound on pages that ends
\* it.
C19_Terminates ==
  /\ <>(Ended("main") /\ handle["main"] # "open")
  /\ [](pc["main"] = "done" /\ args["main"].outfile # "-" =>
          handle["main"] = "closed" /\ closes["main"] = 1)
  /\ [](\A i \in DOMAIN gets["main"] :
          /\ gets["main"][i].url \in ChainLocators
          /\ \A j \in DOMAIN gets["main"] :
               gets["main"][i].url = gets["main"][j].url => i = j)
  /\ [](pc["main"] = "loop" => page_count["main"] < MaxPages)

C19_Witness ==
  /\ pc["main"] = "done" /\ term["main"] = "complete"
  /\ handle["main"] = "closed"
  /\ Len(gets["main"]) = MaxRecords
  /\ Cardinality(ChainLocators) = MaxRecords

====
